---- MODULE Spec2Model ----
(***************************************************************************)
(* A model of aiolinebot: the package initialization that keeps the        *)
(* generated asynchronous client (aiolinebot/api.py) in step with the      *)
(* installed line-bot-sdk, the builder that generates it, and the aiohttp  *)
(* transport the generated client calls.                                   *)
(*                                                                         *)
(* Source text is modelled as a sequence of chunks: the class statement    *)
(* of api_base and one chunk per method definition.  A name is a tuple of  *)
(* tokens, a leading "_" token marking a private name, so that             *)
(* str.startswith("_") and the "_async" suffix are computed, not assumed.  *)
(***************************************************************************)
EXTENDS Integers, Sequences, FiniteSets, TLC

\* ------------------------------------------------------------------ bounds

\* Number of processes that import the package against one installed copy.
NumProcs == 2

Procs == 1..NumProcs

\* Versions of line-bot-sdk that may be installed.
Versions == {"1.0", "1.1"}

\* ------------------------------------------------------- source text

NoName == <<>>

ClassChunk(attr, literal) ==
    [kind |-> "class", attr |-> attr, literal |-> literal,
     defname |-> NoName, async |-> FALSE, stmts |-> <<>>]

MethodChunk(defname, async, stmts) ==
    [kind |-> "method", attr |-> "", literal |-> "",
     defname |-> defname, async |-> async, stmts |-> stmts]

\* src/aiolinebot/api_base.py: class AioLineBotApi(LineBotApi) with
\* LINE_BOT_API_VERSION = 'LINE_BOT_API_VERSION' and __init__.
api_base ==
    << ClassChunk("LINE_BOT_API_VERSION", "LINE_BOT_API_VERSION"),
       MethodChunk(<<"_", "_init__">>, FALSE, <<"super().__init__", "AioHttpClient">>) >>

\* A member of linebot.api.LineBotApi as inspect.getmembers reports it.
Member(name, callable, stmts) ==
    [name |-> name, callable |-> callable,
     src |-> MethodChunk(name, FALSE, stmts)]

PrivateHelper(m) ==
    Member(<<"_", m>>, TRUE,
           <<"headers.update", "self.http_client." \o m,
             "self.__check_error(response)", "return response">>)

\* The synchronous client of the installed line-bot-sdk, in the name order
\* of inspect.getmembers.  Version 1.1 adds an endpoint to version 1.0.
LineBotApi(version) ==
    << Member(<<"DEFAULT_API_ENDPOINT">>, FALSE, <<>>),
       Member(<<"_", "LineBotApi__check_error">>, TRUE, <<"raise LineBotApiError">>),
       Member(<<"_", "_init__">>, TRUE, <<"self.http_client = http_client">>),
       PrivateHelper("delete"),
       PrivateHelper("get"),
       PrivateHelper("post") >>
    \o (IF version = "1.1"
        THEN << Member(<<"broadcast">>, TRUE, <<"self._post">>) >>
        ELSE << >>)
    \o << Member(<<"create_rich_menu">>, TRUE, <<"self._post", "return response.json.get">>),
          Member(<<"delete_rich_menu">>, TRUE, <<"self._delete">>),
          Member(<<"get_message_content">>, TRUE, <<"self._get", "stream=True", "return Content(response)">>),
          Member(<<"get_profile">>, TRUE, <<"self._get", "return Profile.new_from_json_dict">>),
          Member(<<"reply_message">>, TRUE, <<"self._post">>) >>

\* ------------------------------------------------------------ builder

\* str.replace on the tokens of a method body.
ReplaceStmt(stmts, old, new) ==
    [i \in DOMAIN stmts |-> IF stmts[i] = old THEN new ELSE stmts[i]]

\* The replacement without the quotes: the attribute name is rewritten too.
SetVersionUnquoted(source, version) ==
    [i \in DOMAIN source |->
        IF source[i].literal = "LINE_BOT_API_VERSION"
        THEN [source[i] EXCEPT !.literal = version,
                               !.attr = IF @ = "LINE_BOT_API_VERSION" THEN version ELSE @]
        ELSE source[i]]

\* builder.py line 13: base_source.replace("'LINE_BOT_API_VERSION'", f"'{version}'"):
\* only the quoted literal matches, the attribute name does not.
SetVersion(source, version) ==
    [i \in DOMAIN source |->
        IF source[i].literal = "LINE_BOT_API_VERSION"
        THEN [source[i] EXCEPT !.literal = version]
        ELSE source[i]]

AsyncName(name) == name \o <<"_async">>

\* The filter without the callable() test.
IsPublicMember(m) == m.name[1] # "_"

\* builder.py line 18: not m[0].startswith("_") and callable(m[1])
IsPublicCallable(m) == m.name[1] # "_" /\ m.callable

\* The public method rewritten without the replacement of builder.py lines
\* 27-28: calls of self._delete stay as they are.
AsyncMethodSourceKeepsDelete(m) ==
    LET renamed == IF m.src.defname = m.name
                   THEN [m.src EXCEPT !.defname = AsyncName(m.name), !.async = TRUE]
                   ELSE m.src
        s1 == ReplaceStmt(renamed.stmts, "self._get", "await self._get_async")
        s2 == ReplaceStmt(s1, "self._post", "await self._post_async")
    IN  [renamed EXCEPT !.stmts = s2]

\* builder.py lines 19-28: the rewritten source of one public method.
\* "def name(" is replaced only where the source defines that name.
AsyncMethodSource(m) ==
    LET renamed == IF m.src.defname = m.name
                   THEN [m.src EXCEPT !.defname = AsyncName(m.name), !.async = TRUE]
                   ELSE m.src
        s1 == ReplaceStmt(renamed.stmts, "self._get", "await self._get_async")
        s2 == ReplaceStmt(s1, "self._post", "await self._post_async")
        s3 == ReplaceStmt(s2, "self._delete", "await self._delete_async")
    IN  [renamed EXCEPT !.stmts = s3]

RECURSIVE PublicMethodSources(_, _)
\* builder.py lines 17-29: the loop over inspect.getmembers, from member i on.
PublicMethodSources(members, i) ==
    IF i > Len(members) THEN << >>
    ELSE (IF IsPublicCallable(members[i])
          THEN << AsyncMethodSource(members[i]) >>
          ELSE << >>)
         \o PublicMethodSources(members, i + 1)

\* getattr(linebot.api.LineBotApi, "_" + m)
GetAttr(members, name) ==
    members[CHOOSE i \in DOMAIN members : members[i].name = name]

\* The helper rewritten without the replacement of builder.py lines 38-40:
\* self.__check_error(response) stays in the generated class.
AsyncHelperSourceKeepsCheck(members, m) ==
    LET src == GetAttr(members, <<"_", m>>).src
        renamed == [src EXCEPT !.defname = AsyncName(src.defname), !.async = TRUE]
    IN  [renamed EXCEPT !.stmts = ReplaceStmt(renamed.stmts, "self.http_client." \o m,
                                              "await self.aiohttp_client." \o m)]

\* builder.py lines 33-40: the rewritten source of _get, _post or _delete.
AsyncHelperSource(members, m) ==
    LET src == GetAttr(members, <<"_", m>>).src
        renamed == [src EXCEPT !.defname = AsyncName(src.defname), !.async = TRUE]
        s1 == ReplaceStmt(renamed.stmts, "self.http_client." \o m,
                          "await self.aiohttp_client." \o m)
        s2 == ReplaceStmt(s1, "self.__check_error(response)", "response.check_error()")
    IN  [renamed EXCEPT !.stmts = s2]

\* builder.py lines 8-40: the text build_class writes, a function of the
\* api_base source, the installed synchronous client and the version only.
GeneratedSource(members, version) ==
    SetVersion(api_base, version)
    \o PublicMethodSources(members, 1)
    \o << AsyncHelperSource(members, "get"),
          AsyncHelperSource(members, "post"),
          AsyncHelperSource(members, "delete") >>

\* src/aiolinebot/api.py as shipped: the hand-written client of release 0.2,
\* a class with no LINE_BOT_API_VERSION attribute whose coroutine methods
\* carry the synchronous names.
api_py ==
    << ClassChunk("__doc__", "AioLineBotApi provides asynchronous interface"),
       MethodChunk(<<"_", "_init__">>, FALSE, <<"self.http_client = http_client">>),
       MethodChunk(<<"reply_message">>, TRUE, <<"await self._post">>),
       MethodChunk(<<"multicast">>, TRUE, <<"data = {'to': to}", "await self._post">>),
       MethodChunk(<<"get_message_content">>, FALSE, <<"return AioContent">>),
       MethodChunk(<<"create_rich_menu">>, TRUE, <<"await self._post", "return response.json.get">>),
       MethodChunk(<<"delete_rich_menu">>, TRUE, <<"await self._delete">>),
       MethodChunk(<<"get_profile">>, TRUE, <<"await self._get", "return Profile.new_from_json_dict">>),
       MethodChunk(<<"_", "get">>, TRUE, <<"headers.update", "async with self.http_client()", "self.__check_error(response)", "return response">>),
       MethodChunk(<<"_", "post">>, TRUE, <<"headers.update", "async with self.http_client()", "self.__check_error(response)", "return response">>),
       MethodChunk(<<"_", "delete">>, TRUE, <<"headers.update", "async with self.http_client()", "self.__check_error(response)", "return response">>),
       MethodChunk(<<"_", "AioLineBotApi__check_error">>, FALSE, <<"raise LineBotApiError">>) >>

\* ------------------------------------------------- files and modules

NoVersion == "<none>"

File(text) == [exists |-> TRUE, text |-> text]
NoFile == [exists |-> FALSE, text |-> << >>]

Module(text) == [imported |-> TRUE, text |-> text]
NotImported == [imported |-> FALSE, text |-> << >>]

IsAwait(stmt) ==
    stmt \in {"await self._get_async", "await self._post_async",
              "await self._delete_async", "await self._get", "await self._post",
              "await self._delete", "await self.aiohttp_client.get",
              "await self.aiohttp_client.post", "await self.aiohttp_client.delete",
              "async with self.http_client()"}

\* Python compiles the file before running it: a method chunk has to follow
\* a class statement, and await is a SyntaxError outside async def.
Compiles(text) ==
    \A i \in DOMAIN text :
        text[i].kind = "method" =>
            /\ \E j \in 1..(i - 1) : text[j].kind = "class"
            /\ (\E k \in DOMAIN text[i].stmts : IsAwait(text[i].stmts[k])) => text[i].async

\* The last class statement of a module is the one the name AioLineBotApi
\* is left bound to.
ClassAt(text) ==
    CHOOSE i \in DOMAIN text :
        /\ text[i].kind = "class"
        /\ \A j \in DOMAIN text : text[j].kind = "class" => j <= i

HasClass(text) == \E i \in DOMAIN text : text[i].kind = "class"

\* AioLineBotApi.LINE_BOT_API_VERSION of the class a module text defines;
\* NoVersion where the attribute lookup raises AttributeError.
LINE_BOT_API_VERSION(text) ==
    IF HasClass(text) /\ text[ClassAt(text)].attr = "LINE_BOT_API_VERSION"
    THEN text[ClassAt(text)].literal
    ELSE NoVersion

\* The methods of the class a module text defines, a later def of a name
\* replacing an earlier one.
ClassMethods(text) ==
    IF ~HasClass(text) THEN {}
    ELSE {text[i] : i \in {k \in DOMAIN text :
                              /\ k > ClassAt(text)
                              /\ text[k].kind = "method"
                              /\ \A j \in DOMAIN text :
                                    (j > k /\ text[j].kind = "method")
                                        => text[j].defname # text[k].defname}}

\* import aiolinebot.api: the module in sys.modules when there is one, else
\* the file on disk is compiled and run; a module that fails to load is not
\* kept in sys.modules.
ImportModule(modules, f) ==
    IF modules.imported THEN modules
    ELSE IF f.exists /\ Compiles(f.text) THEN Module(f.text)
    ELSE NotImported

\* The file opened for update ("r+"), which keeps its old contents.
OpenWithoutTruncating(f) == File(f.text)

\* builder.py line 43: open(save_as, "w") creates or truncates the file.
OpenForWrite(f) == File(<< >>)

\* builder.py line 44: f.write(base_source) at the start of the opened file.
WriteSource(f, source) ==
    File(source \o SubSeq(f.text, Len(source) + 1, Len(f.text)))

\* ------------------------------------------------------- transport

\* Number of facade calls a client is given; SpecConcurrent lets them
\* overlap.
NumCalls == 2

Calls == 1..NumCalls

\* Status codes the server may answer with: the boundaries of [200,300) and
\* an ordinary error.
Statuses == {199, 200, 299, 300, 404}

ContentTypes == {"application/json", "image/png"}

\* A body that is a JSON object, or bytes that are not JSON.
Bodies == {"json", "bytes"}

Range(seq) == {seq[i] : i \in DOMAIN seq}

\* The is_success test with the upper bound included.
is_success_inclusive(status_code) == 200 <= status_code /\ status_code <= 300

\* http_client.py lines 64-67: AioHttpResponse.is_success (True or None).
is_success(status_code) == 200 <= status_code /\ status_code < 300

\* http_client.py lines 51-54: AioHttpResponse.json, json.loads of the body.
JsonLoads(body) == IF body = "json" THEN "json" ELSE "JSONDecodeError"

\* http_client.py lines 69-78: AioHttpResponse.check_error.  The error
\* argument of LineBotApiError is evaluated before the raise.
check_error(status_code, body) ==
    IF is_success(status_code) THEN "pass"
    ELSE IF JsonLoads(body) = "json" THEN "LineBotApiError"
    ELSE "JSONDecodeError"

\* api.py lines 916-922: AioLineBotApi.__check_error.  response.json is
\* None unless the helper decoded an application/json body, and
\* Error.new_from_json_dict(None) raises AttributeError.
AioLineBotApi__check_error(status_code, json) ==
    IF 200 <= status_code /\ status_code < 300 THEN "pass"
    ELSE IF json = "json" THEN "LineBotApiError"
    ELSE "AttributeError"

\* aiohttp's ClientResponse.json() as AioContent.__aenter__ awaits it: the
\* content type is checked, then the body decoded.
ResponseJson(content_type, body) ==
    IF content_type # "application/json" THEN "ContentTypeError"
    ELSE JsonLoads(body)

\* api.py lines 990-1003: AioContent.__aenter__ once the response is there.
AioContent__aenter__(status, content_type, body) ==
    IF 200 <= status /\ status < 300 THEN "pass"
    ELSE IF ResponseJson(content_type, body) = "json" THEN "LineBotApiError"
    ELSE ResponseJson(content_type, body)

\* api.py lines 871-875 and 891-893: the body the shipped helpers keep as
\* response.json: decoded for application/json, else None.
ShippedJson(content_type, body) ==
    IF content_type = "application/json" THEN JsonLoads(body) ELSE "None"

\* api.py lines 874-875: the body the shipped _get keeps as
\* response.content; _post and _delete (lines 891-893, 909-911) read no
\* body that is not application/json and leave content None.
ShippedContent(verb, content_type, body) ==
    IF content_type # "application/json" /\ verb = "get" THEN body ELSE "None"

\* The headers of a response, as (name, value) pairs: the API's JSON
\* answers carry X-Line-Request-Id, a content server's answer does not.
Headers(content_type) ==
    {<<"Content-Type", content_type>>}
    \cup (IF content_type = "application/json"
          THEN {<<"X-Line-Request-Id", "req-1">>} ELSE {})

\* headers.get(name): the value, or None.
HeaderGet(headers, name) ==
    IF \E h \in headers : h[1] = name
    THEN (CHOOSE h \in headers : h[1] = name)[2]
    ELSE "None"

\* What a raised LineBotApiError carries; no error raised.
NoError == [status_code |-> 0, headers |-> {}, request_id |-> "None", error |-> "None"]

\* http_client.py lines 73-78: the arguments check_error raises with.
check_error_raises(status_code, headers, body) ==
    [status_code |-> status_code, headers |-> headers,
     request_id |-> HeaderGet(headers, "X-Line-Request-Id"),
     error |-> JsonLoads(body)]

\* api.py lines 921-922 and 996-997: LineBotApiError(status, error), with
\* neither headers nor request id.
AioLineBotApi__check_error_raises(status_code, json) ==
    [status_code |-> status_code, headers |-> {}, request_id |-> "None",
     error |-> json]

\* What a statement of a method body asks of the response.
NeedsJson(m) ==
    \E st \in Range(m.stmts) :
        st \in {"return response.json.get", "return Profile.new_from_json_dict"}

ReturnValue(m) ==
    IF NeedsJson(m) THEN "json"
    ELSE IF \E st \in Range(m.stmts) : st \in {"return Content(response)", "return AioContent"}
    THEN "Content"
    ELSE "None"

\* The helper a method body calls, as (receiver form, verb).
HelperCalls ==
    { [stmt |-> "await self._" \o v \o "_async", helper |-> <<"_", v, "_async">>,
       verb |-> v, awaited |-> TRUE] : v \in {"get", "post", "delete"} }
    \cup
    { [stmt |-> "await self._" \o v, helper |-> <<"_", v>>,
       verb |-> v, awaited |-> TRUE] : v \in {"get", "post", "delete"} }
    \cup
    { [stmt |-> "self._" \o v, helper |-> <<"_", v>>,
       verb |-> v, awaited |-> FALSE] : v \in {"get", "post", "delete"} }

HelperCall(m) ==
    CHOOSE h \in HelperCalls : h.stmt \in Range(m.stmts)

CallsHelper(m) == \E h \in HelperCalls : h.stmt \in Range(m.stmts)

\* The execution path of a public method of the class a text defines:
\*   "AioHttpClient"  the generated helper awaits aiohttp_client (http_client.py)
\*   "ClientSession"  the shipped helper opens its own session (api.py 860-914)
\*   "AioContent"     the shipped streaming retrieval (api.py 400-422, 942-1006)
\*   "HttpClient"     the blocking helper of the synchronous client
Transport(text, m) ==
    IF "return AioContent" \in Range(m.stmts) THEN "AioContent"
    ELSE LET h == HelperCall(m)
             defs == {d \in ClassMethods(text) : d.defname = h.helper}
         IN  IF \E d \in defs : "await self.aiohttp_client." \o h.verb \in Range(d.stmts)
             THEN "AioHttpClient"
             ELSE IF \E d \in defs : "async with self.http_client()" \in Range(d.stmts)
             THEN "ClientSession"
             ELSE "HttpClient"

\* The error check the helper of a method runs on the response:
\* "check_error" (AioHttpResponse), "__check_error" of the class the helper
\* is defined in, or "none".
ErrorCheck(text, m) ==
    IF "return AioContent" \in Range(m.stmts) THEN "__aenter__"
    ELSE LET h == HelperCall(m)
             defs == {d \in ClassMethods(text) : d.defname = h.helper}
         IN  IF defs = {} THEN "LineBotApi.__check_error"
             ELSE IF \E d \in defs : "response.check_error()" \in Range(d.stmts)
             THEN "check_error"
             ELSE IF \E d \in defs : "self.__check_error(response)" \in Range(d.stmts)
             THEN "__check_error"
             ELSE "none"

\* self.__check_error inside class AioLineBotApi is the mangled name
\* _AioLineBotApi__check_error, which only the shipped class defines.
HasOwnCheckError(text) ==
    \E d \in ClassMethods(text) : d.defname = <<"_", "AioLineBotApi__check_error">>

IsStream(m) ==
    \/ "stream=True" \in Range(m.stmts)
    \/ "return AioContent" \in Range(m.stmts)

\* The methods of a client a caller awaits (or, for the shipped streaming
\* retrieval, enters with async with).
Endpoints(text) ==
    {m \in ClassMethods(text) :
        /\ m.defname[1] # "_"
        /\ (CallsHelper(m) \/ "return AioContent" \in Range(m.stmts))
        /\ (m.async \/ "return AioContent" \in Range(m.stmts))}

\* The synchronous method a generated method was derived from.
SyncMember(members, defname) ==
    members[CHOOSE i \in DOMAIN members : AsyncName(members[i].name) = defname]

\* The most recipient IDs one multicast may name (api.py line 125).
MaxRecipients == 150

\* Whether a method body checks the number of recipients before it calls
\* its helper.
ValidatesBulk(m) == "if len(to) > 150: raise" \in Range(m.stmts)

\* The numbers of recipient IDs a caller passes: the bound and one more for
\* a method that takes recipients, none for any other.
Recipients(e) ==
    IF e.method = <<"multicast">> THEN {MaxRecipients, MaxRecipients + 1} ELSE {0}

\* One endpoint of a client as a caller meets it: how its body and its
\* helper, read from the client's text, run.  self.__check_error inside
\* class AioLineBotApi is unbound unless that class defines it.
Endpoint(api, members, text, m) ==
    LET transport == Transport(text, m)
        check == ErrorCheck(text, m)
        sync == IF api = "generated" THEN SyncMember(members, m.defname).src ELSE m
    IN  [api |-> api, method |-> m.defname, transport |-> transport,
         stream |-> IsStream(m),
         verb |-> IF transport = "AioContent" THEN "get" ELSE HelperCall(m).verb,
         check |-> IF check = "__check_error" /\ ~HasOwnCheckError(text)
                   THEN "unbound" ELSE check,
         validates |-> ValidatesBulk(m),
         needsJson |-> NeedsJson(m), returns |-> ReturnValue(m),
         syncNeedsJson |-> NeedsJson(sync), syncReturns |-> ReturnValue(sync)]

\* The endpoints a caller can reach with line-bot-sdk version v installed:
\* those of the client build_class generates and those of the shipped one.
EndpointTable ==
    [v \in Versions |->
        {Endpoint("generated", LineBotApi(v), GeneratedSource(LineBotApi(v), v), m) :
            m \in Endpoints(GeneratedSource(LineBotApi(v), v))}
        \cup {Endpoint("shipped", LineBotApi(v), api_py, m) : m \in Endpoints(api_py)}]

\* The synchronous client on the same response: LineBotApi._get/_post/_delete
\* hand the response to __check_error, whose test and error decoding are the
\* ones api.py lines 916-922 copy, then the method decodes the body.
SyncCall(e, status, body) ==
    LET checked == IF 200 <= status /\ status < 300 THEN "pass"
                   ELSE IF JsonLoads(body) = "json" THEN "LineBotApiError"
                   ELSE "JSONDecodeError"
    IN  IF checked # "pass" THEN [outcome |-> checked, result |-> ""]
        ELSE IF e.syncNeedsJson /\ JsonLoads(body) # "json"
        THEN [outcome |-> "JSONDecodeError", result |-> ""]
        ELSE [outcome |-> "returned", result |-> e.syncReturns]

NoEndpoint ==
    [api |-> "", method |-> NoName, transport |-> "", stream |-> FALSE,
     verb |-> "", check |-> "", validates |-> FALSE,
     needsJson |-> FALSE, returns |-> "",
     syncNeedsJson |-> FALSE, syncReturns |-> ""]

\* One session object kept for all calls.
SharedSession(cs) == 1

\* aiohttp.ClientSession() (http_client.py lines 112, 120; api.py lines 418,
\* 867, 887, 905 through self.http_client()): each evaluation constructs a
\* session object that did not exist before.  Sessions are numbered in the
\* order of their construction; cs are the calls made so far.
NewSession(cs) ==
    1 + (CHOOSE n \in {cs[d].sid : d \in DOMAIN cs} :
            \A d \in DOMAIN cs : cs[d].sid <= n)

NoCall ==
    [ep |-> NoEndpoint, to |-> 0, pc |-> "idle", requests |-> 0,
     sid |-> 0, session |-> "none", closes |-> 0, phases |-> << >>,
     status |-> 0, content_type |-> "", body |-> "",
     json |-> "", content |-> "", error |-> NoError,
     checked |-> "", outcome |-> "", result |-> "",
     response_session |-> "None",
     sync |-> [outcome |-> "", result |-> ""]]

\* ----------------------------------------------------------- requests

\* Longest list of messages a caller passes.
MaxMessages == 2

\* The text messages a caller sends.
Messages == {"a", "b"}

\* A Python dict, as a set of (key, value) pairs with one pair per key.
Keys(dict) == {kv[1] : kv \in dict}

\* dict.update(other): other's value for every key of other, the old value
\* for the rest.
Update(dict, other) ==
    {kv \in dict : kv[1] \notin Keys(other)} \cup other

\* api.py lines 36-39: self.headers as __init__ sets it.
DefaultHeaders ==
    {<<"Authorization", "Bearer token">>,
     <<"User-Agent", "line-bot-sdk-python">>}

\* The headers argument of _get, _post and _delete: None, or a dict.
NoneHeaders == [none |-> TRUE, dict |-> {}]

Dict(d) == [none |-> FALSE, dict |-> d]

CallerHeaders ==
    {NoneHeaders, Dict({}),
     Dict({<<"Content-Type", "application/x-www-form-urlencoded">>}),
     Dict({<<"Authorization", "Bearer other">>}),
     Dict({<<"Authorization", "Bearer other">>, <<"X-Trace", "1">>})}

\* api.py lines 863-864, 883-884, 901-902: the dict a helper starts from
\* when its headers argument is None.
HeadersDefault(verb) ==
    IF verb = "post" THEN {<<"Content-Type", "application/json">>} ELSE {}

\* The update the other way round: self.headers.update(headers).
RequestHeadersInto(verb, arg, self_headers) ==
    LET local == IF arg.none THEN HeadersDefault(verb) ELSE arg.dict
        merged == Update(self_headers, local)
    IN  [request |-> merged, self |-> merged, caller |-> arg]

\* api.py lines 863-865, 883-885, 901-903: headers.update(self.headers) on
\* the argument dict, or on a new dict when the argument is None.  Gives the
\* headers of the request, self.headers afterwards, and the caller's dict
\* afterwards (update works in place).
RequestHeaders(verb, arg, self_headers) ==
    LET local == IF arg.none THEN HeadersDefault(verb) ELSE arg.dict
        merged == Update(local, self_headers)
    IN  [request |-> merged, self |-> self_headers,
         caller |-> IF arg.none THEN arg ELSE Dict(merged)]

\* dict.get(key): the value, or None.
Get(dict, key) == HeaderGet(dict, key)

\* The JSON objects the server answers a rich menu creation with.
JsonObjects ==
    {{<<"richMenuId", "richmenu-1">>}, {<<"richMenuId", "richmenu-2">>},
     {<<"message", "not found">>}, {}}

\* The text of a JSON object with at most one member.
DumpsObject(object) ==
    IF object = {} THEN "{}"
    ELSE LET kv == CHOOSE x \in object : TRUE
         IN  "{\"" \o kv[1] \o "\": \"" \o kv[2] \o "\"}"

\* The bodies of the answers: the texts of the objects, and a page that is
\* not JSON.
ResponseBodies == {DumpsObject(o) : o \in JsonObjects} \cup {"<html>"}

\* json.loads as resp.json() applies it: the object a text stands for, or
\* JSONDecodeError.
Loads(text) ==
    IF \E o \in JsonObjects : DumpsObject(o) = text
    THEN [raises |-> FALSE, none |-> FALSE,
          value |-> CHOOSE o \in JsonObjects : DumpsObject(o) = text]
    ELSE [raises |-> TRUE, none |-> FALSE, value |-> {}]

\* response.json left None.
JsonNone == [raises |-> FALSE, none |-> TRUE, value |-> {}]

\* No answer taken yet, nothing returned or raised.
NoAnswer ==
    [status |-> 0, content_type |-> "", body |-> "", outcome |-> "",
     result |-> "", error |-> NoError]

\* The whole decoded answer as the result.
WholeJson(json) == DumpsObject(json)

\* api.py line 502: return response.json.get('richMenuId')
RichMenuId(json) == Get(json, "richMenuId")

\* api.py lines 498-502, 891-896, 916-922: what create_rich_menu makes of
\* the answer to its POST.  _post decodes an application/json body and
\* leaves response.json None for any other; __check_error raises for a
\* status outside [200,300) with Error.new_from_json_dict(response.json),
\* whose message is the object's 'message'; a None there, or in
\* response.json.get, raises AttributeError.
create_rich_menu(status, content_type, body) ==
    LET json == IF content_type = "application/json" THEN Loads(body)
                ELSE JsonNone
        answer == [NoAnswer EXCEPT !.status = status,
                                   !.content_type = content_type,
                                   !.body = body]
    IN  IF json.raises THEN [answer EXCEPT !.outcome = "JSONDecodeError"]
        ELSE IF ~(200 <= status /\ status < 300)
        THEN IF json.none THEN [answer EXCEPT !.outcome = "AttributeError"]
             ELSE [answer EXCEPT
                      !.outcome = "LineBotApiError",
                      !.error = [AioLineBotApi__check_error_raises(status, "json")
                                    EXCEPT !.error = Get(json.value, "message")]]
        ELSE IF json.none THEN [answer EXCEPT !.outcome = "AttributeError"]
        ELSE [answer EXCEPT !.outcome = "returned",
                            !.result = RichMenuId(json.value)]

\* The messages argument: one message, or a list or tuple of messages.
OneMessage(m) == [type |-> "message", value |-> m, items |-> << >>]

ListOf(type, items) == [type |-> type, value |-> "", items |-> items]

SeqsUpTo(S, n) == UNION {[1..k -> S] : k \in 0..n}

MessageArgs ==
    {OneMessage(m) : m \in Messages}
    \cup {ListOf(t, items) : t \in {"list", "tuple"},
                             items \in SeqsUpTo(Messages, MaxMessages)}

\* The argument passed on as it came.
Unnormalized(messages) == messages

\* api.py lines 71-72, 104-105, 139-140, 171-172:
\* if not isinstance(messages, (list, tuple)): messages = [messages]
Normalize(messages) ==
    IF messages.type \notin {"list", "tuple"}
    THEN ListOf("list", <<messages.value>>)
    ELSE messages

\* message.as_json_dict() of a text message.
as_json_dict(m) == [type |-> "text", text |-> m]

\* json.dumps of one message dict, of a list of them, and of a bool.
DumpsMessage(d) ==
    "{\"type\": \"" \o d.type \o "\", \"text\": \"" \o d.text \o "\"}"

RECURSIVE DumpsList(_)
DumpsList(list) ==
    IF list = << >> THEN ""
    ELSE IF Len(list) = 1 THEN DumpsMessage(list[1])
    ELSE DumpsMessage(list[1]) \o ", " \o DumpsList(Tail(list))

DumpsBool(b) == IF b THEN "true" ELSE "false"

\* The methods that send messages, with the path each posts to and the
\* key its first argument goes under (none for broadcast).
MessageMethods ==
    {[name |-> "reply_message", path |-> "/v2/bot/message/reply", key |-> "replyToken"],
     [name |-> "push_message", path |-> "/v2/bot/message/push", key |-> "to"],
     [name |-> "multicast", path |-> "/v2/bot/message/multicast", key |-> "to"],
     [name |-> "broadcast", path |-> "/v2/bot/message/broadcast", key |-> ""]}

\* api.py lines 71-82, 104-115, 139-150, 171-181: the request a message
\* method hands to _post, which adds the headers.
MessageRequest(method, messages, notification_disabled, self_headers) ==
    LET list == Normalize(messages).items
        dicts == [i \in DOMAIN list |-> as_json_dict(list[i])]
        data == "{" \o (IF method.key = "" THEN ""
                        ELSE "\"" \o method.key \o "\": \"x\", ")
                    \o "\"messages\": [" \o DumpsList(dicts) \o "], "
                    \o "\"notificationDisabled\": "
                    \o DumpsBool(notification_disabled) \o "}"
    IN  [method |-> method.name, verb |-> "post", path |-> method.path,
         messages |-> messages,
         notification_disabled |-> notification_disabled,
         dicts |-> dicts, data |-> data, arg |-> NoneHeaders,
         headers |-> RequestHeaders("post", NoneHeaders, self_headers).request,
         answer |-> NoAnswer]

\* api.py lines 860-870, 880-890, 898-908: the request a helper hands to the
\* session when it is called with a headers argument.
HelperRequest(verb, arg, self_headers) ==
    [method |-> "_" \o verb, verb |-> verb, path |-> "/",
     messages |-> ListOf("list", << >>), notification_disabled |-> FALSE,
     dicts |-> << >>, data |-> "", arg |-> arg,
     headers |-> RequestHeaders(verb, arg, self_headers).request,
     answer |-> NoAnswer]

\* Nothing sent yet.
NoRequest ==
    [method |-> "", verb |-> "", path |-> "",
     messages |-> ListOf("list", << >>), notification_disabled |-> FALSE,
     dicts |-> << >>, data |-> "", arg |-> NoneHeaders, headers |-> {},
     answer |-> NoAnswer]

\* ------------------------------------------------------------- state

VARIABLES
    installed,        \* the version of line-bot-sdk installed
    file,             \* aiolinebot/api.py on disk
    pc,               \* each process's position in aiolinebot/__init__.py
    linebot_version,  \* linebot.__version__ as each process imported it
    sys_modules,      \* each process's sys.modules["aiolinebot.api"]
    AioLineBotApi,    \* the module whose class each process has bound
    builds,           \* calls of build_class in each process's initialization
    recorded,         \* the recorded version each process found at line 10
    outputs,          \* every (version, text) a build_class call has written
    calls,            \* the facade calls made, each with its session
    headers,          \* self.headers of the AioLineBotApi instance in use
    sent              \* the request the instance handed to its session last

initVars == <<installed, file, pc, linebot_version, sys_modules, AioLineBotApi,
              builds, recorded, outputs>>

vars == <<initVars, calls, headers, sent>>

Artifacts ==
    {NoFile, File(api_py)}
    \cup {File(GeneratedSource(LineBotApi(v), v)) : v \in Versions}

InitPackage ==
    /\ installed \in Versions
    /\ file \in Artifacts
    /\ pc = [p \in Procs |-> "off"]
    /\ linebot_version = [p \in Procs |-> installed]
    /\ sys_modules = [p \in Procs |-> NotImported]
    /\ AioLineBotApi = [p \in Procs |-> NotImported]
    /\ builds = [p \in Procs |-> 0]
    /\ recorded = [p \in Procs |-> NoVersion]
    /\ outputs = {}


\* api.py lines 35-41: a client instance as __init__ leaves it, nothing sent.
InitClient ==
    /\ headers = DefaultHeaders
    /\ sent = NoRequest

Init == InitPackage /\ calls = [c \in Calls |-> NoCall] /\ InitClient

Finished(p) == pc[p] \in {"off", "done", "failed"}

\* A process starts and runs line 1 of __init__.py.
StartProcess(p) ==
    /\ Finished(p)
    /\ pc' = [pc EXCEPT ![p] = "line9"]
    /\ linebot_version' = [linebot_version EXCEPT ![p] = installed]
    /\ sys_modules' = [sys_modules EXCEPT ![p] = NotImported]
    /\ AioLineBotApi' = [AioLineBotApi EXCEPT ![p] = NotImported]
    /\ builds' = [builds EXCEPT ![p] = 0]
    /\ recorded' = [recorded EXCEPT ![p] = NoVersion]
    /\ UNCHANGED <<installed, file, outputs, calls, headers, sent>>

\* Another version of line-bot-sdk is installed while no process is
\* initializing.
InstallLinebot(v) ==
    /\ v # installed
    /\ \A p \in Procs : Finished(p)
    /\ installed' = v
    /\ UNCHANGED <<file, pc, linebot_version, sys_modules, AioLineBotApi,
                   builds, recorded, outputs, calls, headers, sent>>

\* The comparison inverted.
NeedsRegenerationInverted(found, version) == found = version

\* Regeneration at every start, whatever the artifact records.
NeedsRegenerationAlways(found, version) == TRUE

\* __init__.py line 10: the comparison that decides on regeneration.
NeedsRegeneration(found, version) == found # version

\* __init__.py lines 9-10: from .api import AioLineBotApi, then the version
\* comparison.  Any exception goes to the except branch at line 16.
TryImport(p) ==
    /\ pc[p] = "line9"
    /\ LET m == ImportModule(sys_modules[p], file)
           bound == m.imported /\ HasClass(m.text)
           found == IF bound THEN LINE_BOT_API_VERSION(m.text) ELSE NoVersion
       IN  /\ sys_modules' = [sys_modules EXCEPT ![p] = m]
           /\ AioLineBotApi' = [AioLineBotApi EXCEPT ![p] = IF bound THEN m ELSE @]
           /\ recorded' = [recorded EXCEPT ![p] = found]
           /\ pc' = [pc EXCEPT ![p] =
                        IF ~bound \/ found = NoVersion THEN "line18"
                        ELSE IF NeedsRegeneration(found, linebot_version[p]) THEN "line12"
                        ELSE "done"]
    /\ UNCHANGED <<installed, file, linebot_version, builds, outputs, calls, headers, sent>>

\* build_class up to builder.py line 43: the source is computed and the
\* file is opened for writing, which empties it.
BuildOpen(p) ==
    /\ pc[p] \in {"line12", "line18"}
    /\ builds' = [builds EXCEPT ![p] = @ + 1]
    /\ file' = OpenForWrite(file)
    /\ pc' = [pc EXCEPT ![p] = IF pc[p] = "line12" THEN "write12" ELSE "write18"]
    /\ UNCHANGED <<installed, linebot_version, sys_modules, AioLineBotApi,
                   recorded, outputs, calls, headers, sent>>

\* build_class called again from the except branch after it failed there.
BuildFailsRetrying(p) ==
    /\ pc[p] \in {"line12", "line18"}
    /\ builds' = [builds EXCEPT ![p] = @ + 1]
    /\ pc' = [pc EXCEPT ![p] = IF pc[p] = "line12" \/ builds[p] < 2
                               THEN "line18" ELSE "failed"]
    /\ UNCHANGED <<installed, file, linebot_version, sys_modules, AioLineBotApi,
                   recorded, outputs, calls, headers, sent>>

\* build_class raises (the package directory is not writable): from line 12
\* the except branch takes over, from line 18 the importer gets the error.
BuildFails(p) ==
    /\ pc[p] \in {"line12", "line18"}
    /\ builds' = [builds EXCEPT ![p] = @ + 1]
    /\ pc' = [pc EXCEPT ![p] = IF pc[p] = "line12" THEN "line18" ELSE "failed"]
    /\ UNCHANGED <<installed, file, linebot_version, sys_modules, AioLineBotApi,
                   recorded, outputs, calls, headers, sent>>

\* builder.py line 44 and the end of the with block: the text is written.
BuildWrite(p) ==
    /\ pc[p] \in {"write12", "write18"}
    /\ LET source == GeneratedSource(LineBotApi(linebot_version[p]), linebot_version[p])
       IN  /\ file' = WriteSource(file, source)
           /\ outputs' = outputs \cup {[version |-> linebot_version[p], text |-> file'.text]}
    /\ pc' = [pc EXCEPT ![p] = IF pc[p] = "write12" THEN "line13" ELSE "line19"]
    /\ UNCHANGED <<installed, linebot_version, sys_modules, AioLineBotApi,
                   builds, recorded, calls, headers, sent>>

\* __init__.py lines 13 and 19: from .api import AioLineBotApi after the
\* build.
ReImport(p) ==
    /\ pc[p] \in {"line13", "line19"}
    /\ LET m == ImportModule(sys_modules[p], file)
           bound == m.imported /\ HasClass(m.text)
       IN  /\ sys_modules' = [sys_modules EXCEPT ![p] = m]
           /\ AioLineBotApi' = [AioLineBotApi EXCEPT ![p] = IF bound THEN m ELSE @]
           /\ pc' = [pc EXCEPT ![p] =
                        IF bound THEN "done"
                        ELSE IF pc[p] = "line13" THEN "line18"
                        ELSE "failed"]
    /\ UNCHANGED <<installed, file, linebot_version, builds, recorded, outputs, calls, headers, sent>>

Next ==
    \/ \E p \in Procs : StartProcess(p)
    \/ \E v \in Versions : InstallLinebot(v)
    \/ \E p \in Procs : TryImport(p)
    \/ \E p \in Procs : BuildOpen(p)
    \/ \E p \in Procs : BuildFails(p)
    \/ \E p \in Procs : BuildWrite(p)
    \/ \E p \in Procs : ReImport(p)

Spec == Init /\ [][Next]_vars

\* ------------------------------------------------------ facade calls

\* The calls after call c has moved to k: the state of the session object
\* k holds is the same for every call that holds that object.
Step(c, k) ==
    [d \in DOMAIN calls |->
        IF d = c THEN k
        ELSE IF k.sid # 0 /\ calls[d].sid = k.sid
        THEN [calls[d] EXCEPT !.session = k.session, !.closes = k.closes]
        ELSE calls[d]]

\* The session leaves its async with block, or close() is awaited.
CloseSession(k) == [k EXCEPT !.session = "closed", !.closes = @ + 1]

\* The call ends by raising.
Raise(k, exception) == [k EXCEPT !.pc = "done", !.outcome = exception]

\* The method body after its helper returned the response: a method that
\* builds its result from response.json decodes it, the others return.
MethodReturns(k, json) ==
    LET kd == IF k.ep.needsJson THEN [k EXCEPT !.phases = Append(@, "decode")] ELSE k
    IN  IF k.ep.needsJson /\ json # "json"
        THEN Raise(kd, IF json = "None" THEN "AttributeError" ELSE json)
        ELSE [kd EXCEPT !.pc = IF k.ep.stream THEN "streaming" ELSE "done",
                        !.outcome = "returned",
                        !.result = k.ep.returns]

\* The helper returning the response without a check.
CheckAndReturnUnchecked(k, json) == MethodReturns(k, json)

\* The helper's error check on the response, then the method body.
CheckAndReturn(k, json) ==
    LET verdict ==
            IF k.ep.check = "check_error" THEN check_error(k.status, k.body)
            ELSE IF k.ep.check = "__aenter__"
            THEN AioContent__aenter__(k.status, k.content_type, k.body)
            ELSE IF k.ep.check = "__check_error"
            THEN AioLineBotApi__check_error(k.status, json)
            ELSE IF k.ep.check = "LineBotApi.__check_error"
            THEN SyncCall(k.ep, k.status, k.body).outcome
            ELSE "pass"
    IN  IF k.ep.check = "unbound" THEN Raise(k, "AttributeError")
        ELSE IF k.ep.check = "none" THEN MethodReturns(k, json)
        ELSE IF verdict \in {"pass", "returned"}
        THEN MethodReturns([k EXCEPT !.checked = "success",
                                     !.phases = Append(@, "check")], json)
        ELSE Raise([k EXCEPT !.checked = "error", !.phases = Append(@, "check"),
                             !.error = IF verdict # "LineBotApiError" THEN NoError
                                       ELSE IF k.ep.check = "check_error"
                                       THEN check_error_raises(k.status,
                                                Headers(k.content_type), k.body)
                                       ELSE AioLineBotApi__check_error_raises(k.status, "json")],
                   verdict)

\* What the synchronous method gives for the same response.
WithSync(k) ==
    IF k.ep.api = "generated" /\ k.status # 0
    THEN [k EXCEPT !.sync = SyncCall(k.ep, k.status, k.body)]
    ELSE k

\* A caller calls an endpoint with to recipient IDs.  A method that
\* validates raises before anything else; otherwise the session is created
\* and the request sent (http_client.py lines 112-113, 120-121, 153-154,
\* 179-180; api.py lines 867-868, 887-888 and 418-419).
Call(c, e, to) ==
    /\ calls[c].pc = "idle"
    /\ e \in EndpointTable[installed]
    /\ calls' = [calls EXCEPT ![c] =
            IF e.validates /\ to > MaxRecipients
            THEN [NoCall EXCEPT !.ep = e, !.to = to, !.pc = "done",
                                !.outcome = "ValidationError"]
            ELSE [NoCall EXCEPT !.ep = e, !.to = to, !.pc = "request",
                                !.requests = 1, !.phases = <<"request">>,
                                !.sid = IF e.transport = "HttpClient"
                                        THEN 0 ELSE NewSession(calls),
                                !.session = IF e.transport = "HttpClient"
                                            THEN "none" ELSE "open"]]
    /\ UNCHANGED <<initVars, headers, sent>>

\* Whether the session is released when an exception leaves the transport:
\* an async with block (http_client.py 112, 153, 179; api.py 867, 887, 905)
\* or AioContent.__aenter__'s except clause does, the streaming branch of
\* AioHttpClient.get (http_client.py 120-133) does not.
ReleasesOnError(k) ==
    \/ k.ep.transport \in {"ClientSession", "AioContent"}
    \/ k.ep.transport = "AioHttpClient" /\ ~k.ep.stream

\* A request that is sent once more after it raised.
RequestFailsRetrying(c) ==
    /\ calls[c].pc = "request"
    /\ calls[c].ep.transport # "HttpClient"
    /\ calls' = [calls EXCEPT ![c] =
            IF @.requests < 2 THEN [@ EXCEPT !.requests = @ + 1]
            ELSE Raise(@, "NetworkError")]
    /\ UNCHANGED <<initVars, headers, sent>>

\* The request raises: a connection error or a timeout.
RequestFails(c) ==
    /\ calls[c].pc = "request"
    /\ calls[c].ep.transport # "HttpClient"
    /\ calls' = Step(c, Raise(IF ReleasesOnError(calls[c])
                               THEN CloseSession(calls[c]) ELSE calls[c],
                               "NetworkError"))
    /\ UNCHANGED <<initVars, headers, sent>>

\* The status line and headers arrive.  A streaming get that is_success
\* returns the open response at once (http_client.py 124-128), as does
\* AioContent.__aenter__ for a 2xx status; every other path reads the body.
ResponseArrives(c, status, content_type, body) ==
    /\ calls[c].pc = "request"
    /\ LET k == [calls[c] EXCEPT !.status = status, !.content_type = content_type,
                                 !.body = body, !.phases = Append(@, "headers")]
           open == /\ k.ep.stream
                   /\ \/ k.ep.transport = "AioHttpClient" /\ is_success(status)
                      \/ k.ep.transport = "AioContent" /\ 200 <= status /\ status < 300
           held == IF open /\ k.ep.transport = "AioHttpClient"
                   THEN [k EXCEPT !.response_session = "client_session"] ELSE k
       IN  calls' = [calls EXCEPT ![c] =
                IF open THEN WithSync(CheckAndReturn(held, "None"))
                ELSE [k EXCEPT !.pc = "read"]]
    /\ UNCHANGED <<initVars, headers, sent>>

\* Whether the transport reads anything after the headers: the shipped
\* _post and _delete read only an application/json body.
ReadsBody(k) ==
    \/ k.ep.transport # "ClientSession"
    \/ k.ep.verb = "get"
    \/ k.content_type = "application/json"

\* The body is read and the call runs to its end.  closed is whether the
\* un-awaited client_session.close() of http_client.py line 133 closes the
\* session: it does where close() is a plain function (aiohttp 2), and does
\* nothing where it is a coroutine function (aiohttp 3).
ReadBody(c, closed) ==
    /\ calls[c].pc = "read"
    /\ LET k == calls[c]
           json == IF k.ep.transport = "ClientSession"
                   THEN ShippedJson(k.content_type, k.body)
                   ELSE JsonLoads(k.body)
           kb == IF ReadsBody(k) THEN [k EXCEPT !.phases = Append(@, "body")] ELSE k
           read ==
               IF k.ep.transport = "ClientSession"
               THEN [kb EXCEPT !.json = json,
                               !.content = ShippedContent(k.ep.verb, k.content_type, k.body)]
               ELSE IF k.ep.transport = "AioHttpClient"
               THEN [kb EXCEPT !.json = json, !.content = k.body]
               ELSE kb
           released ==
               IF k.ep.transport = "HttpClient" THEN read
               ELSE IF k.ep.transport = "AioHttpClient" /\ k.ep.stream
               THEN (IF closed THEN CloseSession(read) ELSE read)
               ELSE CloseSession(read)
       IN  /\ (k.ep.transport = "AioHttpClient" /\ k.ep.stream) \/ closed
           /\ calls' = Step(c,
                 IF k.ep.transport = "ClientSession" /\ json = "JSONDecodeError"
                 THEN Raise(released, "JSONDecodeError")
                 ELSE WithSync(CheckAndReturn(released, json)))
    /\ UNCHANGED <<initVars, headers, sent>>

\* Reading the body raises part-way.
ReadFails(c) ==
    /\ calls[c].pc = "read"
    /\ calls[c].ep.transport # "HttpClient"
    /\ ReadsBody(calls[c])
    /\ calls' = Step(c, Raise(IF ReleasesOnError(calls[c])
                               THEN CloseSession(calls[c]) ELSE calls[c],
                               "NetworkError"))
    /\ UNCHANGED <<initVars, headers, sent>>

\* The caller is done with streamed content: AioHttpResponse.close()
\* (http_client.py 24-26) or AioContent.__aexit__ (api.py 1005-1006).
Close(c) ==
    /\ calls[c].pc \in {"streaming", "aborted"}
    /\ calls[c].session = "open"
    /\ calls' = Step(c, [CloseSession(calls[c]) EXCEPT !.pc = "done"])
    /\ UNCHANGED <<initVars, headers, sent>>

\* A failing chunk read that closes the session on every path.
StreamReadFailsClosing(c) ==
    /\ calls[c].pc = "streaming"
    /\ calls' = Step(c, [CloseSession(calls[c]) EXCEPT !.pc = "aborted"])
    /\ UNCHANGED <<initVars, headers, sent>>

\* Reading a chunk of streamed content raises in the caller's loop over
\* iter_content.  Inside "async with api.get_message_content(...)" the
\* exception leaves through AioContent.__aexit__, which closes (api.py
\* 1005-1006); the AioHttpResponse of http_client.py 125-128 is a plain
\* object, so the exception reaches the caller with the session open.
StreamReadFails(c) ==
    /\ calls[c].pc = "streaming"
    /\ calls' = Step(c, [(IF calls[c].ep.transport = "AioContent"
                           THEN CloseSession(calls[c]) ELSE calls[c])
                              EXCEPT !.pc = "aborted"])
    /\ UNCHANGED <<initVars, headers, sent>>

\* The steps of facade calls a caller makes one at a time.
NextCall ==
    \/ \E c \in Calls, e \in EndpointTable[installed] :
          /\ \A d \in Calls \ {c} : calls[d].pc = "idle"
          /\ \E to \in Recipients(e) : Call(c, e, to)
    \/ \E c \in Calls : RequestFails(c)
    \/ \E c \in Calls, st \in Statuses, ct \in ContentTypes, b \in Bodies :
          ResponseArrives(c, st, ct, b)
    \/ \E c \in Calls, closed \in BOOLEAN : ReadBody(c, closed)
    \/ \E c \in Calls : ReadFails(c)
    \/ \E c \in Calls : Close(c)
    \/ \E c \in Calls : StreamReadFails(c)

\* Calls on a client that initialization left in place: the artifact on
\* disk is the one generated for the installed line-bot-sdk.
InitCall ==
    /\ installed \in Versions
    /\ file = File(GeneratedSource(LineBotApi(installed), installed))
    /\ pc = [p \in Procs |-> "off"]
    /\ linebot_version = [p \in Procs |-> installed]
    /\ sys_modules = [p \in Procs |-> NotImported]
    /\ AioLineBotApi = [p \in Procs |-> NotImported]
    /\ builds = [p \in Procs |-> 0]
    /\ recorded = [p \in Procs |-> NoVersion]
    /\ outputs = {}
    /\ calls = [c \in Calls |-> NoCall]
    /\ InitClient

SpecCall == InitCall /\ [][NextCall]_vars

\* The answers the server gives to overlapping calls: a success and an
\* error, each a JSON body declared as such.
ConcurrentStatuses == {200, 404}

\* The endpoints overlapping calls are made on: of each client a streaming
\* retrieval and a call that reads its response at once.
ConcurrentEndpoints(v) ==
    {e \in EndpointTable[v] :
        \/ e.stream
        \/ e.method \in {<<"reply_message">>, AsyncName(<<"reply_message">>)}}

\* The steps of facade calls that overlap: asyncio tasks awaiting methods
\* of one client, interleaved at every await.
NextConcurrent ==
    \/ \E c \in Calls, e \in ConcurrentEndpoints(installed) :
          \E to \in Recipients(e) : Call(c, e, to)
    \/ \E c \in Calls : RequestFails(c)
    \/ \E c \in Calls, st \in ConcurrentStatuses :
          ResponseArrives(c, st, "application/json", "json")
    \/ \E c \in Calls, closed \in BOOLEAN : ReadBody(c, closed)
    \/ \E c \in Calls : Close(c)
    \/ \E c \in Calls : StreamReadFails(c)

SpecConcurrent == InitCall /\ [][NextConcurrent]_vars


\* ----------------------------------------------------- request building

\* api.py lines 43-82, 84-115, 117-150, 152-181: a message method called
\* with one message or with a list or tuple of them.
SendMessages(method, messages, notification_disabled) ==
    /\ sent' = MessageRequest(method, messages, notification_disabled, headers)
    /\ headers' = RequestHeaders("post", NoneHeaders, headers).self
    /\ UNCHANGED <<initVars, calls>>

\* api.py lines 860-914: _get, _post or _delete called with the caller's
\* headers argument.
SendWithHeaders(verb, arg) ==
    /\ sent' = HelperRequest(verb, arg, headers)
    /\ headers' = RequestHeaders(verb, arg, headers).self
    /\ UNCHANGED <<initVars, calls>>

\* api.py lines 483-502: create_rich_menu posts the rich menu and takes the
\* server's answer.
CreateRichMenu(rich_menu, status, content_type, body) ==
    /\ sent' = [NoRequest EXCEPT
                    !.method = "create_rich_menu", !.verb = "post",
                    !.path = "/v2/bot/richmenu",
                    !.data = DumpsObject({<<"name", rich_menu>>}),
                    !.headers = RequestHeaders("post", NoneHeaders, headers).request,
                    !.answer = create_rich_menu(status, content_type, body)]
    /\ headers' = RequestHeaders("post", NoneHeaders, headers).self
    /\ UNCHANGED <<initVars, calls>>

\* api.py lines 416-419, 640-643: the content retrievals hand self.headers
\* itself to the session.
SendContentRequest(name) ==
    /\ sent' = [NoRequest EXCEPT !.method = name, !.verb = "get",
                                 !.path = "/content", !.headers = headers]
    /\ UNCHANGED <<initVars, calls, headers>>

NextRequest ==
    \/ \E method \in MessageMethods, messages \in MessageArgs,
          notification_disabled \in BOOLEAN :
            SendMessages(method, messages, notification_disabled)
    \/ \E verb \in {"get", "post", "delete"}, arg \in CallerHeaders :
            SendWithHeaders(verb, arg)
    \/ \E name \in {"get_message_content", "get_rich_menu_image"} :
            SendContentRequest(name)
    \/ \E status \in Statuses, content_type \in ContentTypes,
          body \in ResponseBodies :
            CreateRichMenu("menu", status, content_type, body)

SpecRequest == InitCall /\ [][NextRequest]_vars


\* ------------------------------------------------ facade call claims

InRange(status) == 200 <= status /\ status < 300

\* The call has ended, or has handed an open stream to the caller, with a
\* response received and read without a network failure.
Answered(k) ==
    /\ k.pc \in {"done", "streaming"}
    /\ k.status # 0
    /\ k.outcome # "NetworkError"

C2_SessionReleasedExactlyOnce ==
    \A c \in Calls :
        /\ calls[c].closes <= 1
        /\ (calls[c].ep.transport = "AioHttpClient" /\ calls[c].pc = "done")
              => (calls[c].session = "closed" /\ calls[c].closes = 1)

\* C3: each of the three error checks (AioHttpResponse.check_error, the
\* facade's __check_error, AioContent.__aenter__) takes a response for a
\* success if and only if 200 <= status < 300; a response it takes for an
\* error is never returned, and raises the API error when its error payload
\* decodes; the API error is raised for no response taken for a success.
C3_ClassificationBoundary ==
    \A c \in Calls :
        LET k == calls[c]
        IN  /\ k.checked \in {"", "success", "error"}
            /\ k.checked = "success" => InRange(k.status)
            /\ k.checked = "error" => ~InRange(k.status)
            /\ k.checked = "error" => k.outcome # "returned"
            /\ (k.checked = "error" /\ k.body = "json"
                    /\ k.content_type = "application/json")
                  => k.outcome = "LineBotApiError"
            /\ k.outcome = "LineBotApiError" => k.checked = "error"
            /\ (Answered(k) /\ k.outcome = "returned") => k.checked = "success"

\* Reachable for C3: status 300 raises the API error out of
\* AioHttpResponse.check_error.
C3_Witness ==
    \E c \in Calls :
        /\ calls[c].ep.check = "check_error"
        /\ calls[c].status = 300
        /\ calls[c].checked = "error"
        /\ calls[c].outcome = "LineBotApiError"

\* C4: on every call path a response whose status is outside [200,300) is
\* never handed to the caller and always ends in the API error.
C4_OutOfRangeRaisesApiError ==
    \A c \in Calls :
        (Answered(calls[c]) /\ ~InRange(calls[c].status))
            => (calls[c].outcome = "LineBotApiError" /\ calls[c].result = "")

\* No path hands the caller a response outside [200,300): what C4's failure
\* leaves standing.
OutOfRangeNeverReturned ==
    \A c \in Calls :
        (Answered(calls[c]) /\ ~InRange(calls[c].status))
            => (calls[c].outcome # "returned" /\ calls[c].result = "")

\* A streaming retrieval whose failure has reached the caller: the request
\* raised, the status was outside [200,300), or a chunk read raised.
StreamFailed(k) ==
    /\ k.ep.stream
    /\ \/ k.pc = "aborted"
       \/ k.pc = "done" /\ k.outcome # "returned"

\* C12: when a streaming content retrieval fails (opening the stream
\* raises, the status is outside [200,300), or reading a chunk raises), the
\* session has been closed exactly once by the time the failure is with the
\* caller.
C12_StreamFailureReleasesSession ==
    \A c \in Calls :
        StreamFailed(calls[c])
            => (calls[c].session = "closed" /\ calls[c].closes = 1)

\* The shipped AioContent, entered with async with, does release on each
\* of these failures.
AioContentReleasesOnFailure ==
    \A c \in Calls :
        (StreamFailed(calls[c]) /\ calls[c].ep.transport = "AioContent")
            => (calls[c].session = "closed" /\ calls[c].closes = 1)

\* A streaming get of AioHttpClient has returned a 2xx response that the
\* caller has not closed yet.
StreamHeld(k) ==
    /\ k.ep.transport = "AioHttpClient"
    /\ k.ep.stream
    /\ k.pc \in {"streaming", "aborted"}

\* C13: from the return of a 2xx streaming get until the caller's close()
\* on the response, the session is open and has never been closed; the only
\* step that ends this is that call's Close, which closes the session once
\* and touches no other call.
C13_StreamSessionOpenUntilClose ==
    [][ \A c \in DOMAIN calls :
            StreamHeld(calls[c])
                => /\ calls[c].session = "open" /\ calls[c].closes = 0
                   /\ InRange(calls[c].status)
                   /\ calls'[c].session # "open"
                         => /\ Close(c)
                            /\ calls'[c].session = "closed"
                            /\ calls'[c].closes = 1
      ]_vars

\* Reachable for C13: the caller has closed a 2xx streaming response.
C13_Witness ==
    \E c \in DOMAIN calls :
        /\ calls[c].ep.transport = "AioHttpClient" /\ calls[c].ep.stream
        /\ InRange(calls[c].status)
        /\ calls[c].outcome = "returned"
        /\ calls[c].pc = "done"
        /\ calls[c].session = "closed" /\ calls[c].closes = 1

\* C14: a response whose status is outside [200,300) and whose body does
\* not decode as the JSON error payload still ends in the API error, never
\* in an exception of another type.
C14_BestEffortErrorDecoding ==
    \A c \in DOMAIN calls :
        (Answered(calls[c]) /\ ~InRange(calls[c].status)
              /\ JsonLoads(calls[c].body) # "json")
            => calls[c].outcome = "LineBotApiError"

\* A call that is not a streaming retrieval and whose response was read.
BodyRead(k) ==
    /\ ~k.ep.stream
    /\ k.pc = "done"
    /\ k.status # 0
    /\ k.outcome # "NetworkError"

\* C15: response.json is the decoded body only for a response declared
\* application/json, and for any other content type response.content is
\* the bytes as received, whether the request was a GET, a POST or a
\* DELETE.
C15_ContentTypeDispatch ==
    \A c \in DOMAIN calls :
        BodyRead(calls[c])
            => /\ calls[c].json = "json" => calls[c].content_type = "application/json"
               /\ calls[c].content_type # "application/json"
                     => calls[c].content = calls[c].body

\* The shipped helpers decode JSON for application/json only, and the
\* shipped _get keeps the bytes of any other body.
ShippedGetDispatches ==
    \A c \in DOMAIN calls :
        (BodyRead(calls[c]) /\ calls[c].ep.transport = "ClientSession")
            => /\ calls[c].json = "json" => calls[c].content_type = "application/json"
               /\ (calls[c].content_type # "application/json" /\ calls[c].ep.verb = "get")
                     => calls[c].content = calls[c].body

\* What spec and claim ask a raised API error to carry for a response.
ErrorContext(k) ==
    [status_code |-> k.status, headers |-> Headers(k.content_type),
     request_id |-> HeaderGet(Headers(k.content_type), "X-Line-Request-Id"),
     error |-> "json"]

\* C16: the API error is raised only for a status outside [200,300), and
\* on every path that raises it, it carries the response's status code, the
\* decoded error body, the response headers and the X-Line-Request-Id
\* header's value (none when the header is absent).
C16_ApiErrorCarriesContext ==
    \A c \in DOMAIN calls :
        calls[c].outcome = "LineBotApiError"
            => /\ ~InRange(calls[c].status)
               /\ calls[c].error = ErrorContext(calls[c])

\* The error check_error raises does carry all four, with and without the
\* request id header; the errors of the shipped paths carry the status code
\* and the decoded body.
CheckErrorCarriesContext ==
    \A c \in DOMAIN calls :
        calls[c].outcome = "LineBotApiError"
            => /\ ~InRange(calls[c].status)
               /\ calls[c].error.status_code = calls[c].status
               /\ calls[c].error.error = "json"
               /\ calls[c].ep.check = "check_error"
                     => calls[c].error = ErrorContext(calls[c])

\* C17: multicast called with one recipient ID more than the maximum
\* raises a validation error with no session created and no request sent;
\* called with the maximum it sends its POST.
C17_BulkSizeValidation ==
    \A c \in DOMAIN calls :
        (calls[c].ep.method = <<"multicast">> /\ calls[c].pc # "idle")
            => /\ calls[c].to > MaxRecipients
                     => /\ calls[c].outcome = "ValidationError"
                        /\ calls[c].session = "none"
                        /\ calls[c].requests = 0
               /\ calls[c].to <= MaxRecipients
                     => (calls[c].requests = 1 /\ calls[c].ep.verb = "post")

\* With the maximum number of recipients the POST is sent; so it is with
\* one more.
MulticastAlwaysPosts ==
    \A c \in DOMAIN calls :
        (calls[c].ep.method = <<"multicast">> /\ calls[c].pc # "idle")
            => (calls[c].requests = 1 /\ calls[c].ep.verb = "post"
                    /\ calls[c].outcome # "ValidationError")

\* C18: a call sends at most one HTTP request; after a request that raised
\* (a network error or a timeout) or a response outside [200,300) it has
\* still sent exactly one, and it ends by raising to the caller.
C18_AtMostOneAttempt ==
    \A c \in DOMAIN calls :
        /\ calls[c].requests <= 1
        /\ calls[c].pc \notin {"idle"} => calls[c].requests = 1
        /\ (calls[c].pc = "done"
              /\ (calls[c].outcome = "NetworkError" \/ ~InRange(calls[c].status)))
             => calls[c].outcome \notin {"", "returned"}
        /\ (calls[c].outcome = "NetworkError" \/ (calls[c].status # 0 /\ ~InRange(calls[c].status)))
             => calls[c].pc \in {"read", "done"}

\* Reachable for C18: a call whose request raised has ended with that
\* failure, one request sent.
C18_Witness ==
    \E c \in DOMAIN calls :
        /\ calls[c].pc = "done" /\ calls[c].requests = 1
        /\ calls[c].outcome = "NetworkError"
        /\ calls[c].status = 0

\* C19: however calls on one client interleave, every call that opens a
\* session holds a session object no other call holds, no session is closed
\* twice, and a step of one call (finishing, failing, closing) changes
\* nothing of any other call: not its session, not its response, not its
\* result.
C19_SessionsNotShared ==
    [][ /\ \A c, d \in DOMAIN calls :
              (c # d /\ calls'[c].sid # 0) => calls'[c].sid # calls'[d].sid
        /\ \A c \in DOMAIN calls :
              /\ calls'[c].closes <= 1
              /\ calls'[c] # calls[c]
                    => \A d \in DOMAIN calls \ {c} : calls'[d] = calls[d]
      ]_vars

\* Reachable for C19: one call has failed and closed its session while
\* another call, started before that, still has its own session open and
\* then goes on to return.
C19_Witness ==
    \E c, d \in DOMAIN calls :
        /\ c # d
        /\ calls[c].pc = "done" /\ calls[c].outcome = "LineBotApiError"
        /\ calls[c].session = "closed"
        /\ calls[d].sid # 0 /\ calls[d].sid < calls[c].sid
        /\ calls[d].pc = "streaming" /\ calls[d].session = "open"

\* The place of a phase in the order request, response, check, decoding.
Rank(phase) ==
    CASE phase = "request" -> 1
      [] phase = "headers" -> 2
      [] phase = "body" -> 3
      [] phase = "check" -> 4
      [] phase = "decode" -> 5

Has(k, phase) == phase \in Range(k.phases)

\* The phases a call has gone through came in the fixed order, each once.
Ordered(k) ==
    \A i, j \in DOMAIN k.phases :
        i < j => Rank(k.phases[i]) < Rank(k.phases[j])

\* The paths on which the error check runs with no body read: a streaming
\* retrieval answered 2xx, whose body the caller reads afterwards, and the
\* shipped _post and _delete answered with a content type other than
\* application/json, which read no body at all.
ChecksWithoutBody(k) ==
    \/ k.ep.stream /\ InRange(k.status)
    \/ /\ k.ep.transport = "ClientSession"
       /\ k.ep.verb \in {"post", "delete"}
       /\ k.content_type # "application/json"

SentMessages == sent.method \in {m.name : m \in MessageMethods}

MethodOf(name) == CHOOSE m \in MessageMethods : m.name = name

\* C22: for reply_message, push_message, multicast and broadcast, a single
\* message m gives exactly the request body that the one-element list [m]
\* gives, and a list or tuple is sent as it is, each message in its place.
C22_SingularEqualsOneElementList ==
    SentMessages =>
        /\ sent.messages.type = "message" =>
              /\ sent.data = MessageRequest(MethodOf(sent.method),
                                 ListOf("list", <<sent.messages.value>>),
                                 sent.notification_disabled, headers).data
              /\ sent.dicts = <<as_json_dict(sent.messages.value)>>
        /\ sent.messages.type \in {"list", "tuple"} =>
              sent.dicts = [i \in DOMAIN sent.messages.items |->
                               as_json_dict(sent.messages.items[i])]

\* A single message has been sent, and so has a list of two in the other
\* order than the alphabet's.
C22_Witness ==
    /\ SentMessages
    /\ sent.messages.type = "message"
    /\ sent.dicts = <<as_json_dict("b")>>

C22_WitnessList ==
    /\ SentMessages
    /\ sent.messages = ListOf("tuple", <<"b", "a">>)


RichMenuAnswered(status, object) ==
    /\ sent.method = "create_rich_menu"
    /\ sent.path = "/v2/bot/richmenu"
    /\ sent.answer.status = status
    /\ sent.answer.content_type = "application/json"
    /\ sent.answer.body = DumpsObject(object)

\* C23: when the POST to /v2/bot/richmenu is answered 200 with the JSON
\* {"richMenuId": id}, create_rich_menu returns id; when it is answered 404
\* with the JSON {"message": "not found"}, it raises LineBotApiError with
\* status code 404 and message "not found" and returns nothing.
C23_CreateRichMenuEndToEnd ==
    /\ \A id \in {"richmenu-1", "richmenu-2"} :
          RichMenuAnswered(200, {<<"richMenuId", id>>}) =>
              /\ sent.answer.outcome = "returned"
              /\ sent.answer.result = id
    /\ RichMenuAnswered(404, {<<"message", "not found">>}) =>
          /\ sent.answer.outcome = "LineBotApiError"
          /\ sent.answer.error.status_code = 404
          /\ sent.answer.error.error = "not found"
          /\ sent.answer.result = ""

\* The creation has been answered 200 with the second id.
C23_Witness ==
    /\ RichMenuAnswered(200, {<<"richMenuId", "richmenu-2">>})
    /\ sent.answer.result = "richmenu-2"

\* The creation has been answered 404 and has raised.
C23_WitnessNotFound ==
    /\ RichMenuAnswered(404, {<<"message", "not found">>})
    /\ sent.answer.outcome = "LineBotApiError"


ValueOf(dict, key) == CHOOSE v \in {kv[2] : kv \in {x \in dict : x[1] = key}} : TRUE

IsDict(dict) == \A x, y \in dict : x[1] = y[1] => x = y

\* C27: over any sequence of calls self.headers stays what __init__ made it,
\* every request sent carries the client's Authorization and User-Agent with
\* the client's values whatever the caller passed under those names, and a
\* call that passes no headers sends the helper's default headers and the
\* client's, nothing that an earlier call passed.
C27_DefaultHeadersKeptAndSent ==
    /\ headers = DefaultHeaders
    /\ sent.method # "" =>
          /\ IsDict(sent.headers)
          /\ \A kv \in DefaultHeaders :
                /\ kv[1] \in Keys(sent.headers)
                /\ ValueOf(sent.headers, kv[1]) = kv[2]
          /\ sent.arg.none =>
                sent.headers = HeadersDefault(sent.verb) \cup DefaultHeaders

\* A request has been sent for a call that passed its own Authorization.
C27_Witness ==
    /\ sent.method = "_get"
    /\ ~sent.arg.none
    /\ <<"Authorization", "Bearer other">> \in sent.arg.dict
    /\ <<"X-Trace", "1">> \in sent.headers


\* ------------------------------------------------ package initialization

Built(p) == builds[p] > 0

BoundVersion(p) ==
    IF AioLineBotApi[p].imported
    THEN LINE_BOT_API_VERSION(AioLineBotApi[p].text)
    ELSE NoVersion

\* C5: when initialization found a recorded version that differs from the
\* installed library's, regenerated, and finished, the class it has bound is
\* the regenerated one: its LINE_BOT_API_VERSION is the library's version.
C5_RegeneratedClassIsBound ==
    \A p \in Procs :
        (pc[p] = "done" /\ Built(p) /\ recorded[p] # NoVersion)
            => BoundVersion(p) = linebot_version[p]

\* C6: once line 10 has been passed, build_class has been called (or is
\* about to be) if and only if the version the loaded client records
\* differs from the library's version; a client that cannot be loaded or
\* records nothing counts as recording no version.
C6_StalenessDetection ==
    \A p \in Procs :
        pc[p] \notin {"off", "line9"}
            => ((Built(p) \/ pc[p] \in {"line12", "line18"})
                    <=> recorded[p] # linebot_version[p])

C6_Witness ==
    \E p, q \in Procs :
        /\ pc[p] = "write12" /\ recorded[p] \in Versions
        /\ pc[q] = "done" /\ ~Built(q) /\ recorded[q] = linebot_version[q]

\* C7: every text a successful build_class(save_as, version) has written
\* defines a class whose LINE_BOT_API_VERSION is the version passed in.
C7_GeneratedVersionIsSourceVersion ==
    \A o \in outputs : LINE_BOT_API_VERSION(o.text) = o.version

C7_Witness ==
    \E p \in Procs :
        /\ pc[p] = "done" /\ ~Built(p)
        /\ recorded[p] = linebot_version[p]
        /\ \E o \in outputs : o.text = file.text /\ o.version = linebot_version[p]

CompleteClients ==
    {api_py} \cup {GeneratedSource(LineBotApi(v), v) : v \in Versions}

\* C8: whatever a process loads as aiolinebot.api, also while another
\* process is regenerating it, is a complete client: the shipped one or one
\* build_class generates, never an empty or mixed text.
C8_ReadersSeeCompleteClient ==
    \A p \in Procs :
        sys_modules[p].imported => sys_modules[p].text \in CompleteClients

DefinitionsOf(text, name) ==
    {i \in DOMAIN text : text[i].kind = "method" /\ text[i].defname = name}

PublicCallables(members) ==
    {members[i].name : i \in {k \in DOMAIN members :
                                 members[k].callable /\ members[k].name[1] # "_"}}

\* C9: every text build_class has written defines, for each public callable
\* of the synchronous client it was built from, exactly one method named
\* <name>_async, a coroutine; and it defines no other public coroutine.
C9_OneAsyncMethodPerPublicCallable ==
    \A o \in outputs :
        LET names == PublicCallables(LineBotApi(o.version))
        IN  /\ \A n \in names :
                  /\ Cardinality(DefinitionsOf(o.text, AsyncName(n))) = 1
                  /\ \A i \in DefinitionsOf(o.text, AsyncName(n)) : o.text[i].async
            /\ \A i \in DOMAIN o.text :
                  (o.text[i].kind = "method" /\ o.text[i].async /\ o.text[i].defname[1] # "_")
                      => \E n \in names : o.text[i].defname = AsyncName(n)

C9_Witness ==
    /\ \E o \in outputs : o.version = "1.0"
    /\ \E o \in outputs : o.version = "1.1"

\* C10: two runs of build_class with the same synchronous client and the
\* same version write the same text, whatever was on disk before each.
C10_SameInputsSameClient ==
    \A o1, o2 \in outputs : o1.version = o2.version => o1.text = o2.text

C10_Witness ==
    /\ \A p \in Procs : pc[p] = "done" /\ builds[p] = 1
    /\ linebot_version[1] = linebot_version[2]

\* C11: a start that loads the artifact and finds its recorded version equal
\* to the library's goes straight to the end of initialization: it calls
\* build_class not once and its step leaves the file as it was.  The file
\* changes only in a step of build_class, run by a process whose check at
\* line 10 did not find the library's version recorded.
C11_SteadyStateSkipsRegeneration ==
    [][ /\ \A p \in Procs :
              (pc[p] = "line9" /\ pc'[p] # "line9"
                    /\ recorded'[p] = linebot_version[p])
                  => (pc'[p] = "done" /\ builds'[p] = 0 /\ file' = file)
        /\ \A p \in Procs :
              (pc[p] = "done" /\ recorded[p] = linebot_version[p] /\ pc'[p] = "done")
                  => builds'[p] = 0
        /\ file' # file
              => \E p \in Procs :
                    /\ pc[p] \in {"line12", "line18", "write12", "write18"}
                    /\ pc'[p] # pc[p]
                    /\ recorded[p] # linebot_version[p]
      ]_vars

\* Reachable for C11: an artifact generated for the installed version is on
\* disk, and a process that started on it has finished without building.
C11_Witness ==
    \E p \in Procs :
        /\ pc[p] = "done" /\ builds[p] = 0
        /\ recorded[p] = installed
        /\ file = File(GeneratedSource(LineBotApi(installed), installed))
        /\ AioLineBotApi[p] = [imported |-> TRUE, text |-> file.text]

\* Calling the method name on an instance of the class a module text
\* defines gives an awaitable: the class itself defines it with async def.
\* A name the class does not define is inherited from LineBotApi, whose
\* methods are plain functions.
ReturnsAwaitable(text, name) ==
    \E d \in ClassMethods(text) : d.defname = name /\ d.async

\* C21: on the class initialization leaves bound, in a first start and in
\* every later one, api.reply_message(...) gives an awaitable, so that
\* "await api.reply_message(...)" of examples/azurefunctions.py works.
C21_SameNameIsAwaitable ==
    \A p \in Procs :
        (pc[p] = "done" /\ AioLineBotApi[p].imported)
            => ReturnsAwaitable(AioLineBotApi[p].text, <<"reply_message">>)

\* On a generated class the awaitable is reply_message_async, and on the
\* shipped class it is reply_message.
GeneratedNameIsAwaitable ==
    \A p \in Procs :
        (pc[p] = "done" /\ AioLineBotApi[p].imported)
            => IF BoundVersion(p) # NoVersion
               THEN /\ ReturnsAwaitable(AioLineBotApi[p].text, AsyncName(<<"reply_message">>))
                    /\ ~ReturnsAwaitable(AioLineBotApi[p].text, <<"reply_message">>)
               ELSE ReturnsAwaitable(AioLineBotApi[p].text, <<"reply_message">>)


Bound(p) == AioLineBotApi[p].imported /\ HasClass(AioLineBotApi[p].text)

MismatchFound(p) ==
    recorded[p] \in Versions /\ NeedsRegeneration(recorded[p], linebot_version[p])

\* C24: during one package initialization build_class is invoked at most
\* once, and initialization ends with AioLineBotApi bound or with the
\* exception propagated to the importer.
C24_BuildAtMostOnce ==
    \A p \in Procs :
        /\ builds[p] <= 1
        /\ pc[p] = "done" => Bound(p)

\* C24 as the code has it: build_class is invoked at most twice during one
\* initialization, a second time only from the except branch after the
\* regeneration of the version-mismatch branch or its re-import failed;
\* an initialization that found no usable artifact builds at most once, and
\* initialization ends with AioLineBotApi bound or with the exception
\* propagated.
C24_BuildAtMostTwice ==
    \A p \in Procs :
        /\ builds[p] <= 2
        /\ builds[p] = 2 => MismatchFound(p)
        /\ pc[p] = "done" => Bound(p)
        /\ pc[p] = "failed" => builds[p] >= 1

\* An initialization has ended with the class bound after two builds.
C24_Witness ==
    \E p \in Procs : builds[p] = 2 /\ pc[p] = "done" /\ Bound(p)


Verbs == {"get", "post", "delete"}

\* The statements that send a request with the blocking client.
Blocking ==
    {"self._" \o v : v \in Verbs} \cup {"self.http_client." \o v : v \in Verbs}

\* The coroutine methods of a generated text.
GeneratedAsync(text) == {d \in ClassMethods(text) : d.async}

GeneratedHelpers(text) ==
    {d \in GeneratedAsync(text) : \E v \in Verbs : d.defname = <<"_", v, "_async">>}

\* C25: in every client build_class has written, no coroutine method holds
\* a call of the blocking _get/_post/_delete or of http_client; every
\* *_async method that sends a request does so by awaiting a generated
\* helper, and each generated helper by awaiting aiohttp_client, which
\* __init__ sets.
C25_GeneratedMethodsAwaitAsyncTransport ==
    \A o \in outputs :
        /\ \A d \in GeneratedAsync(o.text) :
              /\ Range(d.stmts) \cap Blocking = {}
              /\ CallsHelper(d) =>
                    /\ HelperCall(d).awaited
                    /\ HelperCall(d).helper \in
                          {h.defname : h \in GeneratedHelpers(o.text)}
                    /\ Transport(o.text, d) = "AioHttpClient"
        /\ \A v \in Verbs :
              \E h \in GeneratedHelpers(o.text) :
                  /\ h.defname = <<"_", v, "_async">>
                  /\ "await self.aiohttp_client." \o v \in Range(h.stmts)
                  /\ IsAwait("await self.aiohttp_client." \o v)
        /\ \E d \in ClassMethods(o.text) :
              d.defname = <<"_", "_init__">> /\ "AioHttpClient" \in Range(d.stmts)

\* A client has been written whose delete_rich_menu_async awaits the
\* generated _delete_async.
C25_Witness ==
    \E o \in outputs :
        \E d \in GeneratedAsync(o.text) :
            /\ d.defname = <<"delete_rich_menu", "_async">>
            /\ "await self._delete_async" \in Range(d.stmts)


\* AioHttpClient has returned a response to the helper that called it.
ResponseReturned(k) ==
    /\ k.ep.transport = "AioHttpClient"
    /\ k.status # 0
    /\ k.checked # ""

\* C26: a response AioHttpClient returns carries a session if and only if
\* it came from get with stream=True and a 2xx status; for every other
\* response the body has been read into the response and the session of
\* the call is closed when the call returns.
C26_SessionCarriedOnlyByOpenStream ==
    \A c \in Calls :
        LET k == calls[c]
        IN  ResponseReturned(k) =>
              /\ k.response_session # "None" <=> (k.ep.stream /\ InRange(k.status))
              /\ k.response_session = "None" =>
                    /\ "body" \in Range(k.phases)
                    /\ k.content = k.body
                    /\ k.session = "closed"

\* The part of C26 that the code keeps: which responses carry a session,
\* and that the others hold their whole body.
CarriesSessionIffOpenStream ==
    \A c \in Calls :
        LET k == calls[c]
        IN  ResponseReturned(k) =>
              /\ k.response_session # "None" <=> (k.ep.stream /\ InRange(k.status))
              /\ k.response_session = "None" =>
                    ("body" \in Range(k.phases) /\ k.content = k.body)
              /\ (k.response_session = "None" /\ ~k.ep.stream) =>
                    k.session = "closed"


====
